---------------------------- MODULE Spec2Model ----------------------------
(***************************************************************************)
(* Remote mode of the YouTube MCP server (runRemoteServer): the embedded   *)
(* OAuth 2.1 authorization server (consent, approval, token endpoint), the *)
(* per-IP abuse guard, the request gate of /mcp and the transport session  *)
(* registry.                                                               *)
(*                                                                         *)
(* Conventions.  JavaScript strings are TLA+ strings and "" stands for     *)
(* every falsy value of a string-typed field (undefined, empty).  Values   *)
(* produced by generateToken / crypto.randomUUID are positive integers     *)
(* taken from a counter (fresh, never repeated); 0 stands for a missing    *)
(* value and -1 for a string that is no generated value.  PKCE strings are *)
(* the integers of PkceStrings, 0 when missing.  Time is Date.now() in    *)
(* milliseconds.  Code between two awaits of a handler is one action.      *)
(***************************************************************************)
EXTENDS Integers, Sequences, FiniteSets, Bags, TLC

\* ------------------------------------------------------------------------
\* Program constants
\* ------------------------------------------------------------------------
MAX_ATTEMPTS == 5
LOCKOUT_DURATION_MS == 600000
AuthCodeLifetimeMs == 600000
MsPerMinute == 60000
ExpiresIn == 86400

OAUTH_CLIENT_ID == "client-id"
OAUTH_CLIENT_SECRET == "client-secret"
\* the password whose bcrypt hash is AUTH_PASSWORD_HASH
OperatorPassword == "operator-password"

\* ------------------------------------------------------------------------
\* Bounds of the model
\* ------------------------------------------------------------------------
MaxSmallSteps == 1      \* clock advances of 1 ms within one lockout period
MaxBigSteps == 1        \* clock advances of LOCKOUT_DURATION_MS
MaxPending == 2         \* approve handlers suspended in bcrypt.compare
MaxApprovals == 1       \* codes generated in the lockout scenarios
MaxCodes == 2           \* codes generated in the token scenarios
MaxTokens == 4          \* tokens generated
MaxTransports == 1      \* transports created by POST /mcp
MaxLen == 3             \* characters of a parameter given to the consent page
MaxInits == 2           \* transports created by concurrent initialize POSTs

\* PKCE verifier and challenge strings
PkceStrings == {1, 2, 3}

IPs == {"10.0.0.1", "10.0.0.2"}

\* ------------------------------------------------------------------------
\* State
\* ------------------------------------------------------------------------
VARIABLES
  now,             \* Date.now()
  failedAttempts,  \* Map ip -> [count, lockedUntil]
  authCodes,       \* Map code -> [codeChallenge, codeChallengeMethod, clientId, redirectUri, expiresAt]
  validTokens,     \* Set of issued tokens
  nextCode,        \* number of authorization codes generated so far
  nextToken,       \* number of tokens generated so far
  pendingApprove,  \* approve handlers suspended at await bcrypt.compare
  resp,            \* the response (or escaped exception) of the step just taken
  streak,          \* history: ip -> wrong-password answers in a row (see ApproveResume)
  fifthFailAt,     \* history: ip -> time of the 5th wrong-password answer of the streak
  redeemed,        \* history: codes for which a token exchange has succeeded
  issuedAt,        \* history: code -> time at which it was stored
  sessions,        \* Map session id -> transport
  transports,      \* Map transport -> [sessionId, closed, onclose]
  pendingMcp,      \* /mcp handlers suspended at an await
  terminated,      \* history: session ids whose DELETE was acknowledged after a close
  evicted          \* history: session ids whose entry a close signal removed

mcpVars == <<sessions, transports, pendingMcp, terminated, evicted>>

vars == <<now, failedAttempts, authCodes, validTokens, nextCode, nextToken,
          pendingApprove, resp, streak, fifthFailAt, redeemed, issuedAt, mcpVars>>

tokenVars == <<validTokens, nextToken, redeemed>>

oauthVars == <<now, failedAttempts, authCodes, validTokens, nextCode, nextToken,
               pendingApprove, streak, fifthFailAt, redeemed, issuedAt>>

NoResp == [kind |-> "none"]

\* ------------------------------------------------------------------------
\* JavaScript Map helpers
\* ------------------------------------------------------------------------
EmptyMap == [k \in {} |-> 0]
MapHas(m, k) == k \in DOMAIN m
MapSet(m, k, v) == [x \in (DOMAIN m) \cup {k} |-> IF x = k THEN v ELSE m[x]]
MapDelete(m, k) == [x \in (DOMAIN m) \ {k} |-> m[x]]

Truthy(s) == s # ""

\* Math.ceil(a / b) for a >= 0, b > 0
Ceil(a, b) == (a + b - 1) \div b

\* ------------------------------------------------------------------------
\* Abuse guard
\* ------------------------------------------------------------------------
\* getClientIp: first entry of X-Forwarded-For when present, else the peer
getClientIp(req) ==
  IF req.forwarded # <<>> THEN Head(req.forwarded) ELSE req.peer

isLockedOut_NeverElapses(fa, ip, t) ==
  IF ~MapHas(fa, ip) THEN [locked |-> FALSE, remainingMs |-> 0]
  ELSE IF fa[ip].lockedUntil > 0
       THEN [locked |-> TRUE, remainingMs |-> LOCKOUT_DURATION_MS]
       ELSE [locked |-> FALSE, remainingMs |-> 0]

\* isLockedOut: the value it returns
isLockedOut(fa, ip, t) ==
  IF ~MapHas(fa, ip) THEN [locked |-> FALSE, remainingMs |-> 0]
  ELSE IF fa[ip].lockedUntil > t
       THEN [locked |-> TRUE, remainingMs |-> fa[ip].lockedUntil - t]
       ELSE [locked |-> FALSE, remainingMs |-> 0]

\* isLockedOut: the map it leaves behind (an elapsed lockout is purged)
isLockedOutPurge(fa, ip, t) ==
  IF MapHas(fa, ip) /\ ~(fa[ip].lockedUntil > t) /\ fa[ip].lockedUntil > 0
  THEN MapDelete(fa, ip)
  ELSE fa

recordFailedAttempt_OffByOne(fa, ip, t) ==
  LET old == IF MapHas(fa, ip) THEN fa[ip] ELSE [count |-> 0, lockedUntil |-> 0]
      cnt == old.count + 1
      rec == IF cnt > MAX_ATTEMPTS
             THEN [count |-> cnt, lockedUntil |-> t + LOCKOUT_DURATION_MS]
             ELSE [count |-> cnt, lockedUntil |-> old.lockedUntil]
  IN MapSet(fa, ip, rec)

recordFailedAttempt(fa, ip, t) ==
  LET old == IF MapHas(fa, ip) THEN fa[ip] ELSE [count |-> 0, lockedUntil |-> 0]
      cnt == old.count + 1
      rec == IF cnt >= MAX_ATTEMPTS
             THEN [count |-> cnt, lockedUntil |-> t + LOCKOUT_DURATION_MS]
             ELSE [count |-> cnt, lockedUntil |-> old.lockedUntil]
  IN MapSet(fa, ip, rec)

clearFailedAttempts_Keeps(fa, ip) == fa

clearFailedAttempts_All(fa, ip) == EmptyMap

clearFailedAttempts(fa, ip) == MapDelete(fa, ip)

\* bcrypt.compare(password || '', AUTH_PASSWORD_HASH)
bcryptCompare(password) == password = OperatorPassword

\* ------------------------------------------------------------------------
\* POST /authorize/approve
\* ------------------------------------------------------------------------
ValidRedirect == "https://claude.ai/api/mcp/auth_callback"
BadRedirect == "not a url"

\* new URL(s) throws unless s is an absolute URL
UrlParses(s) == s = ValidRedirect

MissingParameters_IgnoresChallenge(req) ==
  ~Truthy(req.client_id) \/ ~Truthy(req.redirect_uri)

MissingParameters(req) ==
  ~Truthy(req.client_id) \/ ~Truthy(req.redirect_uri) \/ req.code_challenge = 0

\* what the handler keeps across await bcrypt.compare
Suspended(req) ==
  [clientIp |-> getClientIp(req),
   password |-> req.password,
   client_id |-> req.client_id,
   redirect_uri |-> req.redirect_uri,
   code_challenge |-> req.code_challenge,
   code_challenge_method |-> req.code_challenge_method,
   state |-> req.state]

\* The handler up to await bcrypt.compare: lockout check, parameter check.
ApproveStart(req) ==
  LET ip == getClientIp(req)
      lockStatus == isLockedOut(failedAttempts, ip, now)
  IN /\ failedAttempts' = isLockedOutPurge(failedAttempts, ip, now)
     /\ IF lockStatus.locked
        THEN /\ resp' = [kind |-> "approve", step |-> "start", ip |-> ip,
                         status |-> 429, page |-> "locked",
                         remainingMins |-> Ceil(lockStatus.remainingMs, MsPerMinute),
                         req |-> req]
             /\ UNCHANGED pendingApprove
        ELSE IF MissingParameters(req)
        THEN /\ resp' = [kind |-> "approve", step |-> "start", ip |-> ip,
                         status |-> 400, page |-> "missing", req |-> req]
             /\ UNCHANGED pendingApprove
        ELSE /\ BagCardinality(pendingApprove) < MaxPending
             /\ pendingApprove' = pendingApprove (+) SetToBag({Suspended(req)})
             /\ resp' = [kind |-> "approve", step |-> "start", ip |-> ip,
                         status |-> 0, page |-> "suspended", req |-> req]
     /\ streak' = IF MapHas(failedAttempts', ip) THEN streak ELSE [streak EXCEPT ![ip] = 0]
     /\ fifthFailAt' = IF MapHas(failedAttempts', ip) THEN fifthFailAt
                       ELSE [fifthFailAt EXCEPT ![ip] = -1]
     /\ UNCHANGED <<now, authCodes, nextCode, issuedAt, tokenVars, mcpVars>>

\* The wrong-password branch after bcrypt.compare resolved false.
ApproveRejected(h) ==
  LET ip == h.clientIp
      fa == recordFailedAttempt(failedAttempts, ip, now)
      cnt == IF MapHas(fa, ip) THEN fa[ip].count ELSE 0
      attemptsLeft == MAX_ATTEMPTS - cnt
  IN /\ failedAttempts' = fa
     /\ resp' = IF attemptsLeft <= 0
                THEN [kind |-> "approve", step |-> "resume", ip |-> ip,
                      status |-> 429, page |-> "lockout", h |-> h]
                ELSE [kind |-> "approve", step |-> "resume", ip |-> ip,
                      status |-> 403, page |-> "incorrect",
                      attemptsLeft |-> attemptsLeft, h |-> h]
     /\ streak' = [streak EXCEPT ![ip] = @ + 1]
     /\ fifthFailAt' = IF streak[ip] + 1 = MAX_ATTEMPTS
                       THEN [fifthFailAt EXCEPT ![ip] = now] ELSE fifthFailAt
     /\ UNCHANGED <<authCodes, nextCode, issuedAt>>

\* The correct-password branch: clear the failures, store a code, redirect.
ApproveAccepted(h) ==
  LET ip == h.clientIp
      authCode == nextCode + 1
  IN /\ failedAttempts' = clearFailedAttempts(failedAttempts, ip)
     /\ nextCode' = authCode
     /\ authCodes' = MapSet(authCodes, authCode,
          [codeChallenge |-> h.code_challenge,
           codeChallengeMethod |-> IF Truthy(h.code_challenge_method)
                                   THEN h.code_challenge_method ELSE "S256",
           clientId |-> h.client_id,
           redirectUri |-> h.redirect_uri,
           expiresAt |-> now + AuthCodeLifetimeMs])
     /\ resp' = IF UrlParses(h.redirect_uri)
                THEN [kind |-> "approve", step |-> "resume", ip |-> ip,
                      status |-> 302, page |-> "redirect", location |-> h.redirect_uri,
                      code |-> authCode, state |-> h.state, h |-> h,
                      cleared |-> IF MapHas(failedAttempts, ip)
                                  THEN failedAttempts[ip].count ELSE 0]
                ELSE [kind |-> "approve", step |-> "resume", ip |-> ip,
                      status |-> 0, page |-> "exception", h |-> h]
     /\ streak' = [streak EXCEPT ![ip] = 0]
     /\ fifthFailAt' = [fifthFailAt EXCEPT ![ip] = -1]
     /\ issuedAt' = MapSet(issuedAt, authCode, now)

\* The handler after await bcrypt.compare.
ApproveResume(h) ==
  /\ BagIn(h, pendingApprove)
  /\ pendingApprove' = pendingApprove (-) SetToBag({h})
  /\ IF bcryptCompare(h.password) THEN ApproveAccepted(h) ELSE ApproveRejected(h)
  /\ UNCHANGED <<now, tokenVars, mcpVars>>

\* ------------------------------------------------------------------------
\* POST /token
\* ------------------------------------------------------------------------
\* crypto.createHash('sha256').update(v).digest('base64url'): an injective
\* map of the strings that fixes none of them
Sha256Base64Url(v) == (v % 3) + 1

verifyCodeChallenge_IgnoresMethod(codeVerifier, codeChallenge, method) ==
  codeVerifier = codeChallenge

verifyCodeChallenge_DefaultsToPlain(codeVerifier, codeChallenge, method) ==
  IF method = "S256" THEN Sha256Base64Url(codeVerifier) = codeChallenge
  ELSE codeVerifier = codeChallenge

verifyCodeChallenge(codeVerifier, codeChallenge, method) ==
  IF method = "S256" THEN Sha256Base64Url(codeVerifier) = codeChallenge
  ELSE IF method = "plain" THEN codeVerifier = codeChallenge
  ELSE FALSE

\* getClientCredentials: req.basic is the decoded Basic header split at ':'
\* (<<>> when there is no Basic header), else the body fields are used
getClientCredentials(req) ==
  IF req.basic # <<>>
  THEN [clientId |-> req.basic[1],
        clientSecret |-> IF Len(req.basic) >= 2 THEN req.basic[2] ELSE ""]
  ELSE [clientId |-> req.client_id, clientSecret |-> req.client_secret]

TokenError(req, error, desc) ==
  [kind |-> "token", req |-> req, status |-> 400, error |-> error,
   error_description |-> desc, access_token |-> 0, refresh_token |-> 0]

TokenSuccess_OnlyAccess(req) ==
  /\ validTokens' = validTokens \cup {nextToken + 1}
  /\ nextToken' = nextToken + 2
  /\ resp' = [kind |-> "token", req |-> req, status |-> 200, error |-> "",
              error_description |-> "", access_token |-> nextToken + 1,
              refresh_token |-> nextToken + 2, token_type |-> "Bearer",
              expires_in |-> ExpiresIn, scope |-> "mcp"]

TokenSuccess_Rotates(req) ==
  /\ validTokens' = (validTokens \ {req.refresh_token}) \cup {nextToken + 1, nextToken + 2}
  /\ nextToken' = nextToken + 2
  /\ resp' = [kind |-> "token", req |-> req, status |-> 200, error |-> "",
              error_description |-> "", access_token |-> nextToken + 1,
              refresh_token |-> nextToken + 2, token_type |-> "Bearer",
              expires_in |-> ExpiresIn, scope |-> "mcp"]

\* generateToken twice, validTokens.add twice, res.json
TokenSuccess(req) ==
  /\ validTokens' = validTokens \cup {nextToken + 1, nextToken + 2}
  /\ nextToken' = nextToken + 2
  /\ resp' = [kind |-> "token", req |-> req, status |-> 200, error |-> "",
              error_description |-> "", access_token |-> nextToken + 1,
              refresh_token |-> nextToken + 2, token_type |-> "Bearer",
              expires_in |-> ExpiresIn, scope |-> "mcp"]

TokenRefresh_AcceptsAny(req) == TokenSuccess(req)

TokenRefresh_ChecksClient(req) ==
  IF req.refresh_token = 0 \/ req.refresh_token \notin validTokens
  THEN /\ resp' = TokenError(req, "invalid_grant", "")
       /\ UNCHANGED <<validTokens, nextToken>>
  ELSE IF getClientCredentials(req).clientId # OAUTH_CLIENT_ID
  THEN /\ resp' = TokenError(req, "invalid_client", "")
       /\ UNCHANGED <<validTokens, nextToken>>
  ELSE TokenSuccess(req)

TokenRefresh_AcceptsPresent(req) ==
  IF req.refresh_token = 0
  THEN /\ resp' = TokenError(req, "invalid_grant", "")
       /\ UNCHANGED <<validTokens, nextToken>>
  ELSE TokenSuccess(req)

TokenRefresh(req) ==
  IF req.refresh_token = 0 \/ req.refresh_token \notin validTokens
  THEN /\ resp' = TokenError(req, "invalid_grant", "")
       /\ UNCHANGED <<validTokens, nextToken>>
  ELSE TokenSuccess(req)

CodeExpired_Never(authData, t) == FALSE

\* Date.now() > authData.expiresAt
CodeExpired(authData, t) == t > authData.expiresAt

RedeemCode_KeepsCode(code) == UNCHANGED authCodes

\* authCodes.delete(code) of the successful exchange
RedeemCode(code) == authCodes' = MapDelete(authCodes, code)

SecretMismatch_RequiresSecret(creds) == creds.clientSecret # OAUTH_CLIENT_SECRET

\* client_secret && client_secret !== OAUTH_CLIENT_SECRET
SecretMismatch(creds) ==
  Truthy(creds.clientSecret) /\ creds.clientSecret # OAUTH_CLIENT_SECRET

PkceFailure_BurnsCode(req, code) ==
  /\ resp' = TokenError(req, "invalid_grant", "PKCE verification failed")
  /\ authCodes' = MapDelete(authCodes, code)
  /\ UNCHANGED <<validTokens, nextToken, redeemed>>

\* the answer to a missing or non-matching code_verifier
PkceFailure(req, code) ==
  /\ resp' = TokenError(req, "invalid_grant", "PKCE verification failed")
  /\ UNCHANGED <<authCodes, validTokens, nextToken, redeemed>>

TokenAuthorizationCode(req) ==
  LET creds == getClientCredentials(req)
      code == req.code
  IN IF ~MapHas(authCodes, code)
     THEN /\ resp' = TokenError(req, "invalid_grant", "Invalid authorization code")
          /\ UNCHANGED <<authCodes, validTokens, nextToken, redeemed>>
     ELSE IF CodeExpired(authCodes[code], now)
     THEN /\ authCodes' = MapDelete(authCodes, code)
          /\ resp' = TokenError(req, "invalid_grant", "Authorization code expired")
          /\ UNCHANGED <<validTokens, nextToken, redeemed>>
     ELSE IF creds.clientId # OAUTH_CLIENT_ID
     THEN /\ resp' = TokenError(req, "invalid_client", "")
          /\ UNCHANGED <<authCodes, validTokens, nextToken, redeemed>>
     ELSE IF SecretMismatch(creds)
     THEN /\ resp' = TokenError(req, "invalid_client", "")
          /\ UNCHANGED <<authCodes, validTokens, nextToken, redeemed>>
     ELSE IF req.code_verifier = 0
             \/ ~verifyCodeChallenge(req.code_verifier, authCodes[code].codeChallenge,
                                     authCodes[code].codeChallengeMethod)
     THEN PkceFailure(req, code)
     ELSE /\ RedeemCode(code)
          /\ redeemed' = redeemed \cup {code}
          /\ TokenSuccess(req)

Token(req) ==
  /\ IF req.grant_type = "refresh_token"
     THEN TokenRefresh(req) /\ UNCHANGED <<authCodes, redeemed>>
     ELSE IF req.grant_type # "authorization_code"
     THEN /\ resp' = TokenError(req, "unsupported_grant_type", "")
          /\ UNCHANGED <<authCodes, validTokens, nextToken, redeemed>>
     ELSE TokenAuthorizationCode(req)
  /\ UNCHANGED <<now, failedAttempts, nextCode, pendingApprove, streak, fifthFailAt,
                 issuedAt, mcpVars>>

\* ------------------------------------------------------------------------
\* /mcp: the request gate
\* ------------------------------------------------------------------------
allowedMethods ==
  {"initialize", "ping", "notifications/initialized", "tools/list",
   "prompts/list", "resources/list"}

\* authHeader?.replace("Bearer ", ""): the Authorization header is absent
\* (scheme ""), "Bearer <credentials>", the bare credentials (scheme "raw"),
\* or of another scheme, which leaves a string that is no token
BearerToken(auth) ==
  IF auth.scheme = "" THEN 0
  ELSE IF auth.scheme \in {"Bearer", "raw"} THEN auth.credentials
  ELSE -1

\* getBaseUrl: x-forwarded-proto, else the protocol of the connection
getBaseUrl(req) ==
  <<IF Truthy(req.forwardedProto) THEN req.forwardedProto ELSE req.protocol,
    "://", req.host>>

authMiddleware_SkipsCheck(req) == "next"

authMiddleware_NoGetBypass(req) ==
  LET token == BearerToken(req.auth)
  IN IF req.method \in allowedMethods THEN "next"
     ELSE IF token = 0 \/ token \notin validTokens THEN "401"
     ELSE "next"

\* authMiddleware: "next" when the request is let through, "401" otherwise
authMiddleware(req) ==
  LET token == BearerToken(req.auth)
  IN IF req.method \in allowedMethods THEN "next"
     ELSE IF req.verb = "GET" THEN "next"
     ELSE IF token = 0 \/ token \notin validTokens THEN "401"
     ELSE "next"

Unauthorized(req) ==
  [kind |-> "mcp", by |-> "gate", status |-> 401, body |-> "unauthorized",
   wwwAuthenticate |-> [scheme |-> "Bearer",
                        resource_metadata |-> getBaseUrl(req) \o
                          <<"/.well-known/oauth-protected-resource">>],
   req |-> req]

\* ------------------------------------------------------------------------
\* /mcp: the session registry
\* ------------------------------------------------------------------------
HandlerResponse(req, status, body) ==
  [kind |-> "mcp", by |-> "handler", status |-> status, body |-> body, req |-> req]

\* a response the transport wrote itself (t its transport, sid the session
\* id header it carries, 0 when none)
TransportResponse(req, status, t, sid) ==
  [kind |-> "mcp", by |-> "transport", status |-> status, transport |-> t,
   sessionId |-> sid, req |-> req]

\* the handler is suspended, or ended without writing anything
NoResponse(req, why) ==
  [kind |-> "mcp", by |-> "nobody", status |-> 0, body |-> why, req |-> req]

NewSessionId_CountsRegistered == Cardinality(DOMAIN sessions) + 1

\* crypto.randomUUID(): an id no transport has been given yet
NewSessionId ==
  Cardinality({transports[t].sessionId : t \in DOMAIN transports} \ {0}) + 1

onclose_KeepsEntry(sess, trs, t) == sess

\* the onclose callback the POST handler installs on its transport
onclose(sess, trs, t) ==
  LET sid == trs[t].sessionId
  IN IF trs[t].onclose /\ sid # 0 /\ MapHas(sess, sid)
     THEN MapDelete(sess, sid) ELSE sess

McpGet_NotFound(req, outcome) ==
  /\ IF req.sessionId = 0 \/ ~MapHas(sessions, req.sessionId)
     THEN resp' = HandlerResponse(req, 404, "Session not found")
     ELSE resp' = TransportResponse(req, 200, sessions[req.sessionId], req.sessionId)
  /\ UNCHANGED mcpVars

\* GET: the SSE stream of a registered session
McpGet(req, outcome) ==
  /\ IF req.sessionId = 0 \/ ~MapHas(sessions, req.sessionId)
     THEN resp' = HandlerResponse(req, 400, "Invalid or missing session ID")
     ELSE LET t == sessions[req.sessionId]
          IN resp' = CASE outcome = "ok" -> TransportResponse(req, 200, t, req.sessionId)
                       [] outcome = "rejected" -> TransportResponse(req, 400, t, 0)
                       [] outcome = "throwsLate" -> TransportResponse(req, 200, t, req.sessionId)
                       [] OTHER -> NoResponse(req, "exception logged")
  /\ UNCHANGED mcpVars

McpDelete_SkipsClose(req, outcome) ==
  IF req.sessionId # 0 /\ MapHas(sessions, req.sessionId)
  THEN /\ pendingMcp' = pendingMcp \cup
            {[stage |-> "close", t |-> sessions[req.sessionId], req |-> req]}
       /\ resp' = NoResponse(req, "suspended")
       /\ UNCHANGED <<sessions, transports, terminated, evicted>>
  ELSE /\ resp' = HandlerResponse(req, 200, "session terminated")
       /\ UNCHANGED mcpVars

\* DELETE up to await transport.close(), which runs the onclose callback
McpDelete(req, outcome) ==
  IF req.sessionId # 0 /\ MapHas(sessions, req.sessionId)
  THEN LET t == sessions[req.sessionId]
       IN IF outcome = "throws"
          THEN /\ resp' = NoResponse(req, "exception")
               /\ UNCHANGED mcpVars
          ELSE /\ transports' = [transports EXCEPT ![t].closed = TRUE]
               /\ sessions' = onclose(sessions, transports, t)
               /\ pendingMcp' = pendingMcp \cup
                    {[stage |-> "close", t |-> t, req |-> req]}
               /\ resp' = NoResponse(req, "suspended")
               /\ UNCHANGED <<terminated, evicted>>
  ELSE /\ resp' = HandlerResponse(req, 200, "session terminated")
       /\ UNCHANGED mcpVars

\* DELETE after await transport.close()
McpDeleteClosed(h) ==
  /\ h \in pendingMcp
  /\ h.stage = "close"
  /\ pendingMcp' = pendingMcp \ {h}
  /\ sessions' = MapDelete(sessions, h.req.sessionId)
  /\ terminated' = terminated \cup {h.req.sessionId}
  /\ resp' = HandlerResponse(h.req, 200, "session terminated")
  /\ UNCHANGED <<transports, evicted, oauthVars>>

InternalError(req) == HandlerResponse(req, 500, "Internal server error")

McpPost_NoNotFound(req, outcome) ==
  LET known == req.sessionId # 0 /\ MapHas(sessions, req.sessionId)
  IN IF ~known
     THEN LET t == Cardinality(DOMAIN transports) + 1
          IN /\ transports' = MapSet(transports, t,
                  [sessionId |-> 0, closed |-> FALSE, onclose |-> FALSE])
             /\ pendingMcp' = pendingMcp \cup
                  {[stage |-> "connect", t |-> t, req |-> req]}
             /\ resp' = NoResponse(req, "suspended")
             /\ UNCHANGED <<sessions, terminated, evicted>>
     ELSE LET t == sessions[req.sessionId]
          IN /\ resp' = TransportResponse(req, 200, t, req.sessionId)
             /\ UNCHANGED mcpVars

\* POST up to the first await: server.connect for a new session,
\* transport.handleRequest for a registered one
McpPost(req, outcome) ==
  LET known == req.sessionId # 0 /\ MapHas(sessions, req.sessionId)
      isInitialize == req.method = "initialize"
  IN IF ~known
     THEN IF ~isInitialize /\ req.sessionId # 0
          THEN /\ resp' = HandlerResponse(req, 404, "Session not found")
               /\ UNCHANGED mcpVars
          ELSE LET t == Cardinality(DOMAIN transports) + 1
               IN /\ transports' = MapSet(transports, t,
                       [sessionId |-> 0, closed |-> FALSE, onclose |-> FALSE])
                  /\ pendingMcp' = pendingMcp \cup
                       {[stage |-> "connect", t |-> t, req |-> req]}
                  /\ resp' = NoResponse(req, "suspended")
                  /\ UNCHANGED <<sessions, terminated, evicted>>
     ELSE LET t == sessions[req.sessionId]
          IN /\ resp' = CASE outcome = "ok" -> TransportResponse(req, 200, t, req.sessionId)
                          [] outcome = "rejected" -> TransportResponse(req, 400, t, 0)
                          [] outcome = "throwsLate" -> TransportResponse(req, 200, t, req.sessionId)
                          [] OTHER -> InternalError(req)
             /\ UNCHANGED mcpVars

\* app.all("/mcp", authMiddleware, ...) up to the first await of the handler
Mcp(req, outcome) ==
  /\ IF authMiddleware(req) = "401"
     THEN resp' = Unauthorized(req) /\ UNCHANGED mcpVars
     ELSE IF req.verb = "GET" THEN McpGet(req, outcome)
     ELSE IF req.verb = "DELETE" THEN McpDelete(req, outcome)
     ELSE IF req.verb = "POST" THEN McpPost(req, outcome)
     ELSE resp' = HandlerResponse(req, 405, "Method not allowed") /\ UNCHANGED mcpVars
  /\ UNCHANGED oauthVars

\* POST for a new session after await server.connect: the onclose callback
\* is installed and transport.handleRequest is called.  The transport gives
\* itself a session id only when it accepts an initialize request.
McpPostConnected(h, outcome) ==
  /\ h \in pendingMcp
  /\ h.stage = "connect"
  /\ outcome = "ok" => h.req.method = "initialize"
  /\ LET t == h.t
         assigns == h.req.method = "initialize" /\ outcome \in {"ok", "throwsLate"}
         sid == IF assigns THEN NewSessionId ELSE 0
         suspends == outcome \in {"ok", "rejected"}
     IN IF outcome = "connectThrows"
        THEN /\ resp' = InternalError(h.req)
             /\ pendingMcp' = pendingMcp \ {h}
             /\ UNCHANGED transports
        ELSE /\ transports' = [transports EXCEPT ![t].onclose = TRUE,
                                                ![t].sessionId = sid]
             /\ pendingMcp' = IF suspends
                              THEN (pendingMcp \ {h}) \cup
                                     {[stage |-> "handle", t |-> t, req |-> h.req]}
                              ELSE pendingMcp \ {h}
             /\ resp' = CASE outcome = "ok" -> TransportResponse(h.req, 200, t, sid)
                          [] outcome = "rejected" -> TransportResponse(h.req, 400, t, 0)
                          [] outcome = "throwsLate" -> TransportResponse(h.req, 200, t, sid)
                          [] OTHER -> InternalError(h.req)
  /\ UNCHANGED <<sessions, terminated, evicted, oauthVars>>

RegisterSession_Never(sess, sid, t) == sess

\* sessions.set(newSessionId, session) when the transport has a session id
RegisterSession(sess, sid, t) ==
  IF sid # 0 THEN MapSet(sess, sid, t) ELSE sess

\* POST for a new session after await transport.handleRequest
McpPostHandled(h) ==
  /\ h \in pendingMcp
  /\ h.stage = "handle"
  /\ pendingMcp' = pendingMcp \ {h}
  /\ LET newSessionId == transports[h.t].sessionId
     IN /\ sessions' = RegisterSession(sessions, newSessionId, h.t)
        /\ resp' = [kind |-> "log", event |-> "handled", transport |-> h.t,
                    sessionId |-> newSessionId, req |-> h.req]
  /\ UNCHANGED <<transports, terminated, evicted, oauthVars>>

\* the transport signals closure by itself: its onclose callback runs
TransportCloses(t) ==
  /\ t \in DOMAIN transports
  /\ ~transports[t].closed
  /\ transports' = [transports EXCEPT ![t].closed = TRUE]
  /\ sessions' = onclose(sessions, transports, t)
  /\ evicted' = evicted \cup (DOMAIN sessions \ DOMAIN sessions')
  /\ resp' = NoResp
  /\ UNCHANGED <<pendingMcp, terminated, oauthVars>>

\* ------------------------------------------------------------------------
\* GET /authorize
\* ------------------------------------------------------------------------
ValidHost == "mcp.example"
BadHost == "bad host"

\* new URL(`${baseUrl}/authorize/approve`) throws unless the Host header
\* gives a URL
BaseUrlParses(req) == req.host = ValidHost

AuthorizeError(req, message) ==
  [kind |-> "authorize", status |-> 400, page |-> "error", message |-> message,
   req |-> req]

\* the consent page, with the approve URL its form posts to
AuthorizeConsent(req) ==
  [kind |-> "authorize", status |-> 200, page |-> "consent", message |-> "",
   approveUrl |-> [base |-> getBaseUrl(req),
                   client_id |-> req.client_id,
                   redirect_uri |-> req.redirect_uri,
                   code_challenge |-> req.code_challenge,
                   code_challenge_method |->
                     IF Truthy(req.code_challenge_method)
                     THEN req.code_challenge_method ELSE "S256",
                   state |-> req.state],
   req |-> req]

Authorize_SkipsClient(req) ==
  /\ resp' = IF req.response_type # "code"
             THEN AuthorizeError(req, "Unsupported response type")
             ELSE IF ~Truthy(req.redirect_uri) \/ req.code_challenge = 0
             THEN AuthorizeError(req, "Missing required parameters")
             ELSE AuthorizeConsent(req)
  /\ UNCHANGED <<oauthVars, mcpVars>>

Authorize(req) ==
  /\ resp' = IF req.response_type # "code"
             THEN AuthorizeError(req, "Unsupported response type")
             ELSE IF req.client_id # OAUTH_CLIENT_ID
             THEN AuthorizeError(req, "Invalid client")
             ELSE IF ~Truthy(req.redirect_uri) \/ req.code_challenge = 0
             THEN AuthorizeError(req, "Missing required parameters")
             ELSE IF ~BaseUrlParses(req)
             THEN [kind |-> "authorize", status |-> 0, page |-> "exception",
                   message |-> "", req |-> req]
             ELSE AuthorizeConsent(req)
  /\ UNCHANGED <<oauthVars, mcpVars>>

\* ------------------------------------------------------------------------
\* The consent page
\* ------------------------------------------------------------------------
\* A string is here the sequence of its characters.
\* str.replace(/ch/g, by): every occurrence of the character, left to right
ReplaceAll(str, ch, by) ==
  LET RECURSIVE Go(_)
      Go(s) == IF s = <<>> THEN <<>>
               ELSE (IF Head(s) = ch THEN by ELSE <<Head(s)>>) \o Go(Tail(s))
  IN Go(str)

AmpEntity == <<"&", "a", "m", "p", ";">>
LtEntity == <<"&", "l", "t", ";">>
GtEntity == <<"&", "g", "t", ";">>
QuotEntity == <<"&", "q", "u", "o", "t", ";">>
AposEntity == <<"&", "#", "3", "9", ";">>

escapeHtml_NoApostrophe(str) ==
  ReplaceAll(ReplaceAll(ReplaceAll(ReplaceAll(str,
    "&", AmpEntity), "<", LtEntity), ">", GtEntity), "\"", QuotEntity)

\* the five replacements, in the order of the chain
escapeHtml(str) ==
  ReplaceAll(ReplaceAll(ReplaceAll(ReplaceAll(ReplaceAll(str,
    "&", AmpEntity), "<", LtEntity), ">", GtEntity), "\"", QuotEntity),
    "'", AposEntity)

\* params.get(name) || dflt: the query of the approve URL holds each value as
\* searchParams.set received it; an absent or empty value gives the default
ParamOr(params, name, dflt) ==
  IF name \in DOMAIN params /\ params[name] # <<>> THEN params[name] ELSE dflt

\* renderConsentPage: the values interpolated into the page, the form action
\* and the five hidden fields
renderConsentPage(approveUrl) ==
  [action |-> approveUrl.pathname,
   client_id |-> escapeHtml(ParamOr(approveUrl.searchParams, "client_id", <<>>)),
   redirect_uri |-> escapeHtml(ParamOr(approveUrl.searchParams, "redirect_uri", <<>>)),
   code_challenge |-> escapeHtml(ParamOr(approveUrl.searchParams, "code_challenge", <<>>)),
   code_challenge_method |->
     escapeHtml(ParamOr(approveUrl.searchParams, "code_challenge_method",
                        <<"S", "2", "5", "6">>)),
   state |-> escapeHtml(ParamOr(approveUrl.searchParams, "state", <<>>))]

\* ------------------------------------------------------------------------
\* The clock
\* ------------------------------------------------------------------------
Tick(d) ==
  /\ \/ d = 1 /\ now % LOCKOUT_DURATION_MS < MaxSmallSteps
     \/ d = LOCKOUT_DURATION_MS /\ now \div LOCKOUT_DURATION_MS < MaxBigSteps
  /\ now' = now + d
  /\ resp' = NoResp
  /\ UNCHANGED <<failedAttempts, authCodes, nextCode, pendingApprove, streak,
                 fifthFailAt, issuedAt, tokenVars, mcpVars>>

\* ------------------------------------------------------------------------
\* Specifications
\* ------------------------------------------------------------------------
\* the stores as runRemoteServer creates them
InitStores ==
  /\ now = 0
  /\ failedAttempts = EmptyMap
  /\ authCodes = EmptyMap
  /\ validTokens = {}
  /\ nextCode = 0
  /\ nextToken = 0
  /\ pendingApprove = EmptyBag
  /\ streak = [ip \in IPs |-> 0]
  /\ fifthFailAt = [ip \in IPs |-> -1]
  /\ redeemed = {}
  /\ issuedAt = EmptyMap
  /\ sessions = EmptyMap
  /\ transports = EmptyMap
  /\ pendingMcp = {}
  /\ terminated = {}
  /\ evicted = {}

Init == InitStores /\ resp = NoResp

PendingCorrect ==
  LET S == {h \in BagToSet(pendingApprove) : bcryptCompare(h.password)}
      RECURSIVE Sum(_)
      Sum(T) == IF T = {} THEN 0
                ELSE LET h == CHOOSE x \in T : TRUE
                     IN CopiesIn(h, pendingApprove) + Sum(T \ {h})
  IN Sum(S)

\* a request that will store a code needs one still to be generated
CodeBudget(req, max) ==
  (bcryptCompare(req.password) /\ ~MissingParameters(req)) =>
    nextCode + PendingCorrect < max

\* Requests of the lockout scenarios: both passwords, the three parameter
\* shapes (complete, one missing, unparseable redirect_uri).
LockoutApproveRequests ==
  [peer : {"10.0.0.1"}, forwarded : {<<>>},
   client_id : {OAUTH_CLIENT_ID}, redirect_uri : {ValidRedirect, BadRedirect},
   code_challenge : {0, 1}, code_challenge_method : {""}, state : {""},
   password : {OperatorPassword, "guess"}]

NextApprove ==
  \/ \E req \in LockoutApproveRequests :
       CodeBudget(req, MaxApprovals) /\ ApproveStart(req)
  \/ \E h \in BagToSet(pendingApprove) : ApproveResume(h)
  \/ \E d \in {1, LOCKOUT_DURATION_MS} : Tick(d)

SpecApprove == Init /\ [][NextApprove]_vars

\* Requests of the token scenarios: approvals with the correct password, one
\* at a time, for two challenges and every spelling of the method.
TokenApproveRequests ==
  [peer : {"10.0.0.1"}, forwarded : {<<>>},
   client_id : {OAUTH_CLIENT_ID}, redirect_uri : {ValidRedirect},
   code_challenge : {1, 2}, code_challenge_method : {"", "plain", "none"},
   state : {""}, password : {OperatorPassword}]

\* client credentials, sent in the body
ClientCredentials ==
  {[basic |-> <<>>, client_id |-> OAUTH_CLIENT_ID, client_secret |-> ""],
   [basic |-> <<>>, client_id |-> "other-client", client_secret |-> OAUTH_CLIENT_SECRET]}

NoCredentials == [basic |-> <<>>, client_id |-> "", client_secret |-> ""]

Request(grant, code, verifier, refresh, cred) ==
  [grant_type |-> grant, code |-> code, code_verifier |-> verifier,
   refresh_token |-> refresh, basic |-> cred.basic, client_id |-> cred.client_id,
   client_secret |-> cred.client_secret]

CodeRequests ==
  {Request("authorization_code", c, v, 0, cred) :
     c \in 0..MaxCodes, v \in {0} \cup PkceStrings, cred \in ClientCredentials}

RefreshRequests ==
  {Request("refresh_token", 0, 0, r, NoCredentials) : r \in {-1, 0, 1}}

OtherGrantRequests ==
  {Request("password", 1, 1, 1, [basic |-> <<>>, client_id |-> OAUTH_CLIENT_ID,
                                  client_secret |-> OAUTH_CLIENT_SECRET])}

TokenRequests == CodeRequests \cup RefreshRequests \cup OtherGrantRequests

NextToken ==
  \/ \E req \in TokenApproveRequests :
       /\ pendingApprove = EmptyBag
       /\ CodeBudget(req, MaxCodes)
       /\ ApproveStart(req)
  \/ \E h \in BagToSet(pendingApprove) : ApproveResume(h)
  \/ \E req \in TokenRequests : Token(req) /\ nextToken' <= MaxTokens

SpecToken == Init /\ [][NextToken]_vars

\* Requests of the expiry scenarios: approvals for two client ids, the clock, and
\* token requests with every credential and verifier.
ExpiryApproveRequests ==
  [peer : {"10.0.0.1"}, forwarded : {<<>>},
   client_id : {OAUTH_CLIENT_ID, "other-client"}, redirect_uri : {ValidRedirect},
   code_challenge : {2}, code_challenge_method : {""},
   state : {""}, password : {OperatorPassword}]

ExpiryCredentials ==
  ClientCredentials \cup
  {[basic |-> <<>>, client_id |-> OAUTH_CLIENT_ID, client_secret |-> "wrong-secret"],
   [basic |-> <<OAUTH_CLIENT_ID, OAUTH_CLIENT_SECRET>>, client_id |-> "", client_secret |-> ""]}

ExpiryRequests ==
  {Request("authorization_code", c, v, 0, cred) :
     c \in 0..MaxApprovals, v \in {0, 1, 2}, cred \in ExpiryCredentials}
  \cup OtherGrantRequests

NextExpiry ==
  \/ \E req \in ExpiryApproveRequests :
       /\ pendingApprove = EmptyBag
       /\ CodeBudget(req, MaxApprovals)
       /\ ApproveStart(req)
  \/ \E h \in BagToSet(pendingApprove) : ApproveResume(h)
  \/ \E req \in ExpiryRequests : Token(req) /\ nextToken' <= MaxTokens
  \/ \E d \in {1, LOCKOUT_DURATION_MS} : Tick(d)

SpecExpiry == Init /\ [][NextExpiry]_vars


\* Requests of the gate scenarios: one approval, the code exchange and
\* refresh grants, and /mcp requests that name no registered session.
GateApproveRequests ==
  [peer : {"10.0.0.1"}, forwarded : {<<>>},
   client_id : {OAUTH_CLIENT_ID}, redirect_uri : {ValidRedirect},
   code_challenge : {2}, code_challenge_method : {"S256"},
   state : {"xyz"}, password : {OperatorPassword}]

GateTokenRequests ==
  {Request("authorization_code", 1, v, 0, NoCredentials) : v \in {1}}
  \cup {Request("authorization_code", 1, v, 0, cred) :
          v \in {1, 2}, cred \in {[basic |-> <<>>, client_id |-> OAUTH_CLIENT_ID,
                                   client_secret |-> OAUTH_CLIENT_SECRET]}}
  \cup {Request("refresh_token", 0, 0, r, NoCredentials) : r \in -1..MaxTokens}
  \cup {Request("refresh_token", 0, 0, 1,
                 [basic |-> <<>>, client_id |-> "other-client",
                  client_secret |-> "wrong-secret"])}

AuthHeaders ==
  {[scheme |-> "", credentials |-> 0], [scheme |-> "Basic", credentials |-> 1],
   [scheme |-> "raw", credentials |-> 1]}
  \cup [scheme : {"Bearer"}, credentials : -1..MaxTokens]

\* a request to /mcp: method is body.method ("" when the body has none) and
\* params stands for the rest of the body
McpRequest(verb, method, params, auth, sid, proto) ==
  [verb |-> verb, method |-> method, params |-> params, auth |-> auth,
   sessionId |-> sid,
   forwardedProto |-> proto, protocol |-> "http", host |-> "mcp.example"]

\* every verb with every method and Authorization header (a POST naming
\* initialize, which opens a session, is left to the session scenarios), and
\* tools/call POSTs with more body content and a forwarded protocol
GateMcpRequests ==
  {req \in {McpRequest(verb, method, "", auth, -1, "") :
               verb \in {"GET", "POST", "DELETE", "PUT"},
               method \in allowedMethods \cup {"tools/call", ""},
               auth \in AuthHeaders} :
     ~(req.verb = "POST" /\ req.method = "initialize")}
  \cup {McpRequest("POST", "tools/call", params, auth, -1, proto) :
          params \in {"", "name=get_video"},
          auth \in AuthHeaders, proto \in {"", "https"}}

NextGate ==
  \/ \E req \in GateApproveRequests :
       /\ pendingApprove = EmptyBag
       /\ CodeBudget(req, MaxApprovals)
       /\ ApproveStart(req)
  \/ \E h \in BagToSet(pendingApprove) : ApproveResume(h)
  \/ \E req \in GateTokenRequests : Token(req) /\ nextToken' <= MaxTokens
  \/ \E req \in GateMcpRequests : Mcp(req, "ok")

SpecGate == Init /\ [][NextGate]_vars

\* Requests of the session scenarios: one approval and code exchange, and
\* /mcp requests served one at a time, of every verb, with and without a
\* bearer token, for every session id.
SessionTokenRequests ==
  {Request("authorization_code", 1, 1, 0, [basic |-> <<>>, client_id |-> OAUTH_CLIENT_ID,
                                           client_secret |-> ""]),
   Request("refresh_token", 0, 0, 2, NoCredentials)}

SessionMcpRequests ==
  {McpRequest(verb, method, "", auth, sid, "") :
     verb \in {"GET", "POST", "DELETE"},
     method \in {"initialize", "tools/call"},
     auth \in {[scheme |-> "", credentials |-> 0], [scheme |-> "Bearer", credentials |-> 1]},
     sid \in 0..MaxTransports}
  \cup {McpRequest("PUT", "ping", "", [scheme |-> "", credentials |-> 0], 0, "")}

Outcomes == {"ok", "rejected", "throws", "throwsLate"}

NextMcp ==
  \/ \E req \in GateApproveRequests :
       /\ pendingApprove = EmptyBag
       /\ nextCode = 0
       /\ ApproveStart(req)
  \/ \E h \in BagToSet(pendingApprove) : ApproveResume(h)
  \/ \E req \in SessionTokenRequests : Token(req) /\ nextToken' <= MaxTokens
  \/ \E req \in SessionMcpRequests, outcome \in Outcomes :
       /\ pendingMcp = {}
       /\ Mcp(req, outcome)
       /\ Cardinality(DOMAIN transports') <= MaxTransports
  \/ \E h \in pendingMcp, outcome \in Outcomes \cup {"connectThrows"} :
       McpPostConnected(h, outcome)
  \/ \E h \in pendingMcp : McpPostHandled(h)
  \/ \E h \in pendingMcp : McpDeleteClosed(h)
  \/ \E t \in DOMAIN transports : TransportCloses(t)

SpecMcp == Init /\ [][NextMcp]_vars

\* Calls of verifyCodeChallenge: every verifier and challenge (the empty
\* string included) with every method value.
PkceMethods == {"S256", "plain", "", "s256", "none"}

PkceCalls ==
  [kind : {"call"}, codeVerifier : {0} \cup PkceStrings,
   codeChallenge : {0} \cup PkceStrings, method : PkceMethods]

InitPkce == InitStores /\ resp \in PkceCalls

\* the call returns
PkceReturn ==
  /\ resp.kind = "call"
  /\ resp' = [kind |-> "return", codeVerifier |-> resp.codeVerifier,
              codeChallenge |-> resp.codeChallenge, method |-> resp.method,
              result |-> verifyCodeChallenge(resp.codeVerifier, resp.codeChallenge,
                                             resp.method)]
  /\ UNCHANGED <<oauthVars, mcpVars>>

NextPkce == PkceReturn

SpecPkce == InitPkce /\ [][NextPkce]_vars

\* Requests of the consent scenarios: every shape of the query of
\* GET /authorize, between approvals and code exchanges that fill the stores.
AuthorizeRequests ==
  [response_type : {"code", "token", ""},
   client_id : {OAUTH_CLIENT_ID, "other-client", ""},
   redirect_uri : {ValidRedirect, ""},
   code_challenge : {0, 1},
   code_challenge_method : {"", "plain"},
   state : {"", "xyz"},
   forwardedProto : {""}, protocol : {"http"}, host : {ValidHost, BadHost}]

ConsentApproveRequests ==
  [peer : {"10.0.0.1"}, forwarded : {<<>>},
   client_id : {OAUTH_CLIENT_ID}, redirect_uri : {ValidRedirect},
   code_challenge : {0, 2}, code_challenge_method : {"S256"}, state : {"xyz"},
   password : {OperatorPassword, "guess"}]

NextAuthorize ==
  \/ \E req \in AuthorizeRequests : Authorize(req)
  \/ \E req \in ConsentApproveRequests :
       /\ pendingApprove = EmptyBag
       /\ CodeBudget(req, MaxApprovals)
       /\ ApproveStart(req)
  \/ \E h \in BagToSet(pendingApprove) : ApproveResume(h)
  \/ \E req \in SessionTokenRequests : Token(req) /\ nextToken' <= MaxTokens

SpecAuthorize == Init /\ [][NextAuthorize]_vars

\* Calls of renderConsentPage: approve URLs in which one parameter is any
\* string of up to MaxLen characters, markup characters included, and the
\* others are plain; state may be absent.
HtmlChars == {"&", "<", ">", "\"", "'", ";", "a"}

HtmlStrings == UNION {[1..n -> HtmlChars] : n \in 0..MaxLen}

ConsentParams == {"client_id", "redirect_uri", "code_challenge",
                  "code_challenge_method", "state"}

ApproveUrls ==
  {[pathname |-> "/authorize/approve",
    searchParams |-> [p \in names |-> IF p = name THEN s ELSE <<"a">>]] :
     name \in ConsentParams, s \in HtmlStrings,
     names \in {ConsentParams, ConsentParams \ {"state"}}}

InitConsent ==
  /\ InitStores
  /\ resp \in {[kind |-> "render", approveUrl |-> u] : u \in ApproveUrls}

\* the call returns the page
ConsentReturn ==
  /\ resp.kind = "render"
  /\ resp' = [kind |-> "page", approveUrl |-> resp.approveUrl,
              fields |-> renderConsentPage(resp.approveUrl)]
  /\ UNCHANGED <<oauthVars, mcpVars>>

NextConsent == ConsentReturn

SpecConsent == InitConsent /\ [][NextConsent]_vars

\* Requests of the concurrent scenarios: initialize POSTs without a session
\* id or carrying one and the same id that was never generated, DELETEs and
\* tools/call POSTs for the generated ids; handlers run concurrently.
UnknownSessionId == -1

ConcurrentMcpRequests ==
  {McpRequest("POST", "initialize", "", [scheme |-> "", credentials |-> 0], sid, "") :
     sid \in {0, UnknownSessionId}}
  \cup {McpRequest(verb, "ping", "", [scheme |-> "", credentials |-> 0], sid, "") :
          verb \in {"POST", "DELETE"}, sid \in 1..MaxInits}

NextConcurrent ==
  \/ \E req \in ConcurrentMcpRequests, outcome \in {"ok"} :
       /\ Mcp(req, outcome)
       /\ Cardinality(DOMAIN transports') <= MaxInits
       /\ Cardinality(pendingMcp') <= MaxInits
  \/ \E h \in pendingMcp, outcome \in Outcomes \cup {"connectThrows"} :
       McpPostConnected(h, outcome)
  \/ \E h \in pendingMcp : McpPostHandled(h)
  \/ \E h \in pendingMcp : McpDeleteClosed(h)
  \/ \E t \in DOMAIN transports : TransportCloses(t)

SpecConcurrent == Init /\ [][NextConcurrent]_vars

\* Requests of the two-address scenarios, served one at a time: both
\* passwords from both peers, and a wrong password from the first peer with
\* an X-Forwarded-For header that names the second address first.
PerIpApproveRequests ==
  {[peer |-> peer, forwarded |-> fwd,
    client_id |-> OAUTH_CLIENT_ID, redirect_uri |-> ValidRedirect,
    code_challenge |-> 1, code_challenge_method |-> "", state |-> "",
    password |-> pw] :
     peer \in IPs, fwd \in {<<>>}, pw \in {OperatorPassword, "guess"}}
  \cup {[peer |-> "10.0.0.1", forwarded |-> <<"10.0.0.2", "10.0.0.1">>,
         client_id |-> OAUTH_CLIENT_ID, redirect_uri |-> ValidRedirect,
         code_challenge |-> 1, code_challenge_method |-> "", state |-> "",
         password |-> "guess"]}

NextPerIp ==
  \/ \E req \in PerIpApproveRequests :
       /\ pendingApprove = EmptyBag
       /\ CodeBudget(req, MaxApprovals)
       /\ ApproveStart(req)
  \/ \E h \in BagToSet(pendingApprove) : ApproveResume(h)
  \/ \E d \in {1, LOCKOUT_DURATION_MS} : Tick(d)

SpecPerIp == Init /\ [][NextPerIp]_vars

\* ------------------------------------------------------------------------
\* Properties
\* ------------------------------------------------------------------------
\* the step just taken answered a POST /token with grant_type authorization_code
CodeGrantStep ==
  resp'.kind = "token" /\ resp'.req.grant_type = "authorization_code"

NoTokenMinted == validTokens' = validTokens /\ nextToken' = nextToken

\* the step ran the first part of the approve handler for a request of ip
StartStep(ip) == resp'.kind = "approve" /\ resp'.step = "start" /\ resp'.ip = ip

\* the step ran the approve handler after bcrypt.compare for a request of ip
ResumeStep(ip) == resp'.kind = "approve" /\ resp'.step = "resume" /\ resp'.ip = ip

\* the lockout window opened by the 5th wrong password in a row is running
InWindow(ip) == streak[ip] >= MAX_ATTEMPTS /\ now < fifthFailAt[ip] + LOCKOUT_DURATION_MS

\* C1: once an authorization_code request presenting code c has succeeded,
\* every later authorization_code request presenting c, whatever its other
\* fields, is answered 400 invalid_grant and mints no token; so no code is
\* ever exchanged for a second pair of tokens.
C1_CodeSingleUse ==
  [][(CodeGrantStep /\ resp'.req.code \in redeemed)
       => /\ resp'.status = 400
          /\ resp'.error = "invalid_grant"
          /\ NoTokenMinted]_vars

C1_Witness ==
  /\ resp.kind = "token"
  /\ resp.req.grant_type = "authorization_code"
  /\ resp.req.code \in redeemed
  /\ resp.status = 400
  /\ resp.req.code_verifier # 0
  /\ resp.req.client_id = OAUTH_CLIENT_ID

\* what PKCE asks of a verifier, for a stored challenge and method
PkceMatches(verifier, authData) ==
  \/ authData.codeChallengeMethod = "S256"
     /\ Sha256Base64Url(verifier) = authData.codeChallenge
  \/ authData.codeChallengeMethod = "plain"
     /\ verifier = authData.codeChallenge

\* the request carries a verifier that verifies against what is stored under its code
VerifierOk(req) ==
  /\ req.code_verifier # 0
  /\ MapHas(authCodes, req.code)
  /\ PkceMatches(req.code_verifier, authCodes[req.code])

\* the client checks that precede the PKCE check let the request through
ClientAccepted(req) ==
  LET creds == getClientCredentials(req)
  IN /\ creds.clientId = OAUTH_CLIENT_ID
     /\ creds.clientSecret \in {"", OAUTH_CLIENT_SECRET}

C5_ExpiredCodePurged ==
  [][(/\ CodeGrantStep
      /\ MapHas(authCodes, resp'.req.code)
      /\ now > issuedAt[resp'.req.code] + 10 * MsPerMinute)
       => /\ resp'.status = 400
          /\ resp'.error = "invalid_grant"
          /\ NoTokenMinted
          /\ ~MapHas(authCodes', resp'.req.code)]_vars

C5_Witness ==
  /\ resp.kind = "token"
  /\ resp.error_description = "Authorization code expired"
  /\ resp.req.code \in DOMAIN issuedAt
  /\ resp.req.code \notin DOMAIN authCodes
  /\ now > issuedAt[resp.req.code] + 10 * MsPerMinute
  /\ getClientCredentials(resp.req).clientId # OAUTH_CLIENT_ID

C9_SuccessResets ==
  [][\A ip \in IPs :
       /\ (ResumeStep(ip) /\ bcryptCompare(resp'.h.password))
            => /\ ~MapHas(failedAttempts', ip)
               /\ streak'[ip] = 0
       /\ (ResumeStep(ip) /\ ~bcryptCompare(resp'.h.password) /\ streak[ip] = 0)
            => /\ resp'.status = 403
               /\ resp'.attemptsLeft = MAX_ATTEMPTS - 1
               /\ failedAttempts'[ip] = [count |-> 1, lockedUntil |-> 0]
       /\ (MapHas(failedAttempts', ip) /\ failedAttempts'[ip].lockedUntil > 0)
            => streak'[ip] >= MAX_ATTEMPTS]_vars

C9_Witness ==
  /\ resp.kind = "approve"
  /\ resp.step = "resume"
  /\ resp.page = "redirect"
  /\ resp.cleared \in 1..(MAX_ATTEMPTS - 1)
  /\ ~MapHas(failedAttempts, resp.ip)

\* C10: starting from an ip with no failure record, the k-th wrong password
\* in a row is answered with 5-k attempts remaining for k = 1..4 and the
\* 5th with the lockout message; a 6th submission with the correct password
\* inside the 10-minute window is answered with the lockout message, not
\* with a redirect.
C10_AttemptsRemaining ==
  [][\A ip \in IPs :
       /\ (ResumeStep(ip) /\ ~bcryptCompare(resp'.h.password))
            => /\ streak'[ip] = streak[ip] + 1
               /\ streak'[ip] \in 1..(MAX_ATTEMPTS - 1)
                    => /\ resp'.status = 403
                       /\ resp'.page = "incorrect"
                       /\ resp'.attemptsLeft = MAX_ATTEMPTS - streak'[ip]
               /\ streak'[ip] = MAX_ATTEMPTS
                    => resp'.status = 429 /\ resp'.page = "lockout"
       /\ (/\ StartStep(ip)
           /\ streak[ip] = MAX_ATTEMPTS
           /\ now < fifthFailAt[ip] + LOCKOUT_DURATION_MS
           /\ bcryptCompare(resp'.req.password))
            => /\ resp'.status = 429
               /\ resp'.page = "locked"
               /\ resp'.remainingMins >= 1]_vars

C10_Witness ==
  /\ resp.kind = "approve"
  /\ resp.step = "resume"
  /\ resp.page = "lockout"
  /\ streak[resp.ip] = MAX_ATTEMPTS
  /\ failedAttempts[resp.ip].count = MAX_ATTEMPTS


\* ------------------------------------------------------------------------
\* The request gate and the token set
\* ------------------------------------------------------------------------
\* the step answers a request to /mcp
McpStep == resp'.kind = "mcp"

\* the request carries no Authorization header, or "Bearer <value>" with a
\* value that is not a valid token
Unauthenticated(req) ==
  \/ req.auth.scheme = ""
  \/ req.auth.scheme = "Bearer" /\ req.auth.credentials \notin validTokens

\* <base>/.well-known/oauth-protected-resource for the request's base URL
ProtectedResourceUrl(req) ==
  <<IF req.forwardedProto # "" THEN req.forwardedProto ELSE req.protocol,
    "://", req.host, "/.well-known/oauth-protected-resource">>

\* C2: a POST /mcp whose body method is "tools/call", with no Authorization
\* header or with a bearer value outside the valid-token set, is answered 401
\* with a WWW-Authenticate header whose resource_metadata is
\* <base>/.well-known/oauth-protected-resource, whatever the rest of the
\* body, the session id header and the forwarded protocol are, and neither
\* the session registry nor a transport is touched.
C2_UnauthenticatedToolsCall ==
  [][(/\ McpStep
      /\ resp'.req.verb = "POST"
      /\ resp'.req.method = "tools/call"
      /\ Unauthenticated(resp'.req))
       => /\ resp'.by = "gate"
          /\ resp'.status = 401
          /\ resp'.wwwAuthenticate.scheme = "Bearer"
          /\ resp'.wwwAuthenticate.resource_metadata = ProtectedResourceUrl(resp'.req)
          /\ UNCHANGED mcpVars]_vars

\* a tools/call POST with a body and a forwarded protocol was refused for a
\* bearer value that is no valid token while valid tokens exist
C2_Witness ==
  /\ resp.kind = "mcp"
  /\ resp.by = "gate"
  /\ resp.req.verb = "POST"
  /\ resp.req.method = "tools/call"
  /\ resp.req.params # ""
  /\ resp.req.forwardedProto = "https"
  /\ resp.req.auth.scheme = "Bearer"
  /\ resp.req.auth.credentials > 0
  /\ validTokens # {}

\* no step removes a token from the valid-token set
TokensKept == validTokens \subseteq validTokens'

\* a request to /mcp whose bearer value is a valid token is not stopped by
\* the gate, whatever its verb and body method
MembersPassGate ==
  (/\ McpStep
   /\ resp'.req.auth.scheme = "Bearer"
   /\ resp'.req.auth.credentials \in validTokens)
    => resp'.by # "gate"

\* C6: a successful authorization_code exchange returns an access token and
\* a refresh token that are both in the valid-token set; no token ever leaves
\* the set, and every /mcp request whose bearer value is in the set passes
\* the gate, tools/call included.
C6_ExchangedTokensAccepted ==
  [][/\ (CodeGrantStep /\ resp'.status = 200)
          => /\ resp'.access_token \in validTokens'
             /\ resp'.refresh_token \in validTokens'
             /\ resp'.access_token # resp'.refresh_token
     /\ TokensKept
     /\ MembersPassGate]_vars

\* the refresh token of the code exchange (the second token generated) was
\* used as the bearer value of a tools/call POST, which reached the handler
C6_Witness ==
  /\ redeemed # {}
  /\ resp.kind = "mcp"
  /\ resp.by = "handler"
  /\ resp.req.verb = "POST"
  /\ resp.req.method = "tools/call"
  /\ resp.req.auth.scheme = "Bearer"
  /\ resp.req.auth.credentials = 2

RefreshStep == resp'.kind = "token" /\ resp'.req.grant_type = "refresh_token"

\* C7: a refresh_token grant whose refresh_token is missing or not in the
\* valid-token set is answered 400 invalid_grant and leaves the set as it
\* was; with a member it is answered 200 with an access token and a refresh
\* token that are new and are added to the set, and from then on the new
\* access token stays in the set and passes the gate.
C7_RefreshGrant ==
  [][/\ (RefreshStep /\ (resp'.req.refresh_token = 0
                          \/ resp'.req.refresh_token \notin validTokens))
          => /\ resp'.status = 400
             /\ resp'.error = "invalid_grant"
             /\ validTokens' = validTokens
     /\ (RefreshStep /\ resp'.req.refresh_token # 0
                     /\ resp'.req.refresh_token \in validTokens)
          => /\ resp'.status = 200
             /\ {resp'.access_token, resp'.refresh_token} \cap validTokens = {}
             /\ resp'.access_token # resp'.refresh_token
             /\ validTokens' = validTokens \cup {resp'.access_token, resp'.refresh_token}
     /\ validTokens \subseteq validTokens'
     /\ (/\ McpStep
         /\ resp'.req.auth.scheme = "Bearer"
         /\ resp'.req.auth.credentials \in validTokens)
          => resp'.by \in {"handler", "transport", "nobody"}]_vars

\* the access token of a refresh grant (the third token generated) was used
\* as the bearer value of a tools/call POST, which reached the handler
C7_Witness ==
  /\ nextToken >= 4
  /\ resp.kind = "mcp"
  /\ resp.by = "handler"
  /\ resp.req.verb = "POST"
  /\ resp.req.method = "tools/call"
  /\ resp.req.auth.scheme = "Bearer"
  /\ resp.req.auth.credentials = 3

PresentedToken(req) ==
  CASE req.auth.scheme = "" -> 0
    [] req.auth.scheme = "Bearer" -> req.auth.credentials
    [] req.auth.scheme = "raw" -> req.auth.credentials
    [] OTHER -> -1

HandshakeMethods ==
  {"initialize", "ping", "notifications/initialized", "tools/list",
   "prompts/list", "resources/list"}

\* C11: a request to /mcp that presents no valid token is let through by the
\* gate if and only if its body method is one of the six allow-listed
\* methods or its verb is GET; every other request is let through exactly
\* when the token it presents is in the valid-token set, and is answered 401
\* otherwise.
C11_GatePassage ==
  [][McpStep =>
       LET req == resp'.req
           valid == PresentedToken(req) # 0 /\ PresentedToken(req) \in validTokens
           open == req.method \in HandshakeMethods \/ req.verb = "GET"
       IN /\ ~valid => (resp'.by # "gate" <=> open)
          /\ ~open => (resp'.by # "gate" <=> valid)
          /\ resp'.by = "gate" => resp'.status = 401]_vars

\* a DELETE naming an allow-listed method went through without a token while
\* valid tokens exist
C11_Witness ==
  /\ resp.kind = "mcp"
  /\ resp.by = "handler"
  /\ resp.req.verb = "DELETE"
  /\ resp.req.method = "ping"
  /\ resp.req.auth.scheme = ""
  /\ validTokens # {}


\* ------------------------------------------------------------------------
\* PKCE
\* ------------------------------------------------------------------------
\* C12: verifyCodeChallenge(verifier, challenge, method) is true for method
\* S256 exactly when base64url(SHA-256(verifier)) is the challenge, true for
\* method plain exactly when the verifier is the challenge, and false for
\* every other method, for all verifiers and challenges.
C12_VerifyCodeChallenge ==
  resp.kind = "return" =>
    /\ resp.method = "S256"
         => (resp.result <=> Sha256Base64Url(resp.codeVerifier) = resp.codeChallenge)
    /\ resp.method = "plain"
         => (resp.result <=> resp.codeVerifier = resp.codeChallenge)
    /\ resp.method \notin {"S256", "plain"} => ~resp.result

\* a call with an unknown method returned false although the verifier is
\* the challenge
C12_Witness ==
  /\ resp.kind = "return"
  /\ resp.method = "s256"
  /\ resp.codeVerifier = resp.codeChallenge
  /\ resp.codeVerifier # 0
  /\ ~resp.result


\* ------------------------------------------------------------------------
\* The abuse guard under concurrent requests
\* ------------------------------------------------------------------------
\* password comparisons under way for ip with a wrong password; every one of
\* them was started while ip was not locked out
PendingWrong(ip) ==
  LET S == {h \in BagToSet(pendingApprove) :
              h.clientIp = ip /\ ~bcryptCompare(h.password)}
      RECURSIVE Sum(_)
      Sum(T) == IF T = {} THEN 0
                ELSE LET h == CHOOSE x \in T : TRUE
                     IN CopiesIn(h, pendingApprove) + Sum(T \ {h})
  IN Sum(S)

\* C13: for every interleaving of concurrent approve requests of one ip, at
\* most 5 wrong passwords of that ip are compared against the hash before
\* the ip is locked out: the wrong passwords answered in a row plus those
\* whose comparison is under way never exceed 5.
C13_AtMostFiveAttempts ==
  \A ip \in IPs : streak[ip] + PendingWrong(ip) <= MAX_ATTEMPTS


\* C14: PKCE with S256 is required for every authorization flow: no code is
\* stored with a challenge method other than S256, and no code exchange
\* succeeds for a code whose stored method is not S256.
C14_S256Required ==
  [][/\ \A c \in DOMAIN authCodes' : authCodes'[c].codeChallengeMethod = "S256"
     /\ (CodeGrantStep /\ resp'.status = 200)
          => authCodes[resp'.req.code].codeChallengeMethod = "S256"]_vars


\* ------------------------------------------------------------------------
\* The session registry
\* ------------------------------------------------------------------------
\* the step adds an entry to the registry or binds an id to another transport
EntryAdded ==
  \E sid \in DOMAIN sessions' :
    ~MapHas(sessions, sid) \/ sessions'[sid] # sessions[sid]

DeleteStep ==
  /\ resp'.kind = "mcp"
  /\ resp'.by # "gate"
  /\ resp'.req.verb = "DELETE"

C17_GetNeedsSession ==
  [][(resp'.kind = "mcp" /\ resp'.req.verb = "GET") =>
       LET sid == resp'.req.sessionId
       IN /\ (sid = 0 \/ ~MapHas(sessions, sid))
               => /\ resp'.by = "handler"
                  /\ resp'.status = 400
                  /\ resp'.body = "Invalid or missing session ID"
                  /\ UNCHANGED mcpVars
          /\ (sid # 0 /\ MapHas(sessions, sid))
               => /\ resp'.by \in {"transport", "nobody"}
                  /\ resp'.by = "transport" => resp'.transport = sessions[sid]
                  /\ UNCHANGED mcpVars]_vars

\* a GET without a token was handed to the transport of its session
C17_Witness ==
  /\ resp.kind = "mcp"
  /\ resp.req.verb = "GET"
  /\ resp.by = "transport"
  /\ resp.req.auth.scheme = ""
  /\ MapHas(sessions, resp.req.sessionId)
  /\ sessions[resp.req.sessionId] = resp.transport


ApproveEnds ==
  /\ resp'.kind = "approve"
  /\ resp'.page # "suspended"

\* C19: every POST /authorize/approve ends with a 302 redirect or a 400, 403
\* or 429 error page, for every combination of body fields; none ends in an
\* exception or without a response, and a code is stored only by a request
\* that ends with the 302 redirect.
C19_ApproveAlwaysAnswers ==
  [][/\ ApproveEnds => resp'.status \in {302, 400, 403, 429}
     /\ authCodes' # authCodes
          => (ApproveEnds /\ resp'.status = 302) \/ resp'.kind = "token"]_vars


\* ------------------------------------------------------------------------
\* The valid-token set
\* ------------------------------------------------------------------------
\* C20: the valid-token set only grows: no step (code exchange, refresh
\* grant, gate check, session creation or termination, transport closure)
\* removes a token; so a request to /mcp presenting a member as bearer token
\* is never stopped by the gate, a refresh grant presenting a member is
\* accepted, and after it the presented token and every token issued before
\* are still members.
C20_TokensOnlyGrow ==
  [][/\ validTokens \subseteq validTokens'
     /\ (/\ resp'.kind = "mcp"
         /\ resp'.req.auth.scheme = "Bearer"
         /\ resp'.req.auth.credentials \in validTokens)
          => resp'.by # "gate"
     /\ (/\ resp'.kind = "token"
         /\ resp'.req.grant_type = "refresh_token"
         /\ resp'.req.refresh_token \in validTokens)
          => /\ resp'.status = 200
             /\ resp'.req.refresh_token \in validTokens'
             /\ 1..nextToken \subseteq validTokens']_vars

\* after a refresh grant and the termination of a session, the first access
\* token was presented with a tools/call POST and passed the gate
C20_Witness ==
  /\ nextToken >= 4
  /\ terminated # {}
  /\ resp.kind = "mcp"
  /\ resp.by # "gate"
  /\ resp.req.verb = "POST"
  /\ resp.req.method = "tools/call"
  /\ resp.req.auth.scheme = "Bearer"
  /\ resp.req.auth.credentials = 1


\* ------------------------------------------------------------------------
\* The consent page
\* ------------------------------------------------------------------------
HtmlEntities == {AmpEntity, LtEntity, GtEntity, QuotEntity, AposEntity}

\* out has none of the raw characters < > " ' and every & of it starts one
\* of the five entities
HtmlSafe(out) ==
  \A i \in 1..Len(out) :
    /\ out[i] \notin {"<", ">", "\"", "'"}
    /\ out[i] = "&" =>
         \E e \in HtmlEntities :
           /\ i + Len(e) - 1 <= Len(out)
           /\ SubSeq(out, i, i + Len(e) - 1) = e

\* C21: each of the five OAuth parameters embedded in the consent page
\* (client_id, redirect_uri, code_challenge, code_challenge_method, state) is
\* the escapeHtml of the value the approve URL carries, and that output, for
\* every input string, has none of the raw characters < > " ' and has & only
\* as the start of one of the entities escapeHtml produces.
C21_ConsentPageEscaped ==
  resp.kind = "page" =>
    \A p \in ConsentParams :
      /\ HtmlSafe(resp.fields[p])
      /\ p \in DOMAIN resp.approveUrl.searchParams
           /\ resp.approveUrl.searchParams[p] # <<>>
           => resp.fields[p] = escapeHtml(resp.approveUrl.searchParams[p])

\* a page rendered for a state holding a quote, an ampersand and an apostrophe
C21_Witness ==
  /\ resp.kind = "page"
  /\ "state" \in DOMAIN resp.approveUrl.searchParams
  /\ resp.approveUrl.searchParams["state"] = <<"\"", "&", "'">>
  /\ resp.fields["state"] = QuotEntity \o AmpEntity \o AposEntity


\* ------------------------------------------------------------------------
\* Where authorization codes come from
\* ------------------------------------------------------------------------
CodeAdded == DOMAIN authCodes' \ DOMAIN authCodes # {}

\* C22: a step adds a code to the code store only if it is the resumption of
\* a POST /authorize/approve handler whose request carries client_id,
\* redirect_uri and code_challenge and whose password matches the hash, and
\* a handler gets as far as the password comparison only if its IP was not
\* locked out when the handler checked; no step of another endpoint and no
\* approve request answered 400, 403 or 429 adds a code.
C22_CodeOnlyFromApproval ==
  [][/\ CodeAdded =>
          /\ resp'.kind = "approve"
          /\ resp'.step = "resume"
          /\ BagIn(resp'.h, pendingApprove)
          /\ Truthy(resp'.h.client_id)
          /\ Truthy(resp'.h.redirect_uri)
          /\ resp'.h.code_challenge # 0
          /\ bcryptCompare(resp'.h.password)
          /\ resp'.status \notin {400, 403, 429}
     /\ (resp'.kind = "approve" /\ resp'.page = "suspended") =>
          /\ ~isLockedOut(failedAttempts, getClientIp(resp'.req), now).locked
          /\ BagIn(Suspended(resp'.req), pendingApprove')]_vars

\* a code was stored by an approval that followed wrong passwords
C22_Witness ==
  /\ resp.kind = "approve"
  /\ resp.step = "resume"
  /\ resp.status = 302
  /\ resp.cleared >= 2
  /\ resp.code \in DOMAIN authCodes
  /\ resp.h.code_challenge = 2


\* ------------------------------------------------------------------------
\* Approvals during a lockout
\* ------------------------------------------------------------------------
LockedNow(ip) == MapHas(failedAttempts, ip) /\ failedAttempts[ip].lockedUntil > now

\* C23: while lockedUntil of an IP lies in the future, no step of a
\* POST /authorize/approve handler of that IP stores an authorization code
\* or removes the failure record of the IP, whatever the interleaving of the
\* handlers.
C23_NoApprovalWhileLocked ==
  [][\A ip \in IPs :
       (LockedNow(ip) /\ (StartStep(ip) \/ ResumeStep(ip)))
         => /\ ~CodeAdded
            /\ MapHas(failedAttempts', ip)]_vars


\* C24: once lockedUntil of an IP is set and lies in the future, no step
\* gives the record of that IP a later lockedUntil, whatever the
\* interleaving of the approve handlers of that IP; and a submission
\* answered 429 at the lockout check leaves the failure records as they were.
C24_LockoutNotExtended ==
  [][\A ip \in IPs :
       /\ (LockedNow(ip) /\ MapHas(failedAttempts', ip))
            => failedAttempts'[ip].lockedUntil <= failedAttempts[ip].lockedUntil
       /\ (StartStep(ip) /\ resp'.status = 429)
            => failedAttempts' = failedAttempts]_vars


\* ------------------------------------------------------------------------
\* Codes and clients
\* ------------------------------------------------------------------------
\* C25: every code in the code store has the provisioned client id as its
\* clientId, and an authorization_code exchange succeeds only when the
\* client id presented at /token equals the clientId stored with the code.
C25_CodeBoundToClient ==
  [][/\ \A c \in DOMAIN authCodes' : authCodes'[c].clientId = OAUTH_CLIENT_ID
     /\ (CodeGrantStep /\ resp'.status = 200)
          => /\ MapHas(authCodes, resp'.req.code)
             /\ getClientCredentials(resp'.req).clientId
                  = authCodes[resp'.req.code].clientId]_vars


\* the code the request presents is stored and has not expired
CodeLive(req) ==
  MapHas(authCodes, req.code) /\ ~(now > authCodes[req.code].expiresAt)

\* C26: an authorization_code request for a stored, unexpired code is
\* answered 400 invalid_client, minting nothing, when the client id it
\* presents differs from the provisioned one or when it supplies a client
\* secret that differs from the provisioned one; a request that supplies no
\* secret is not answered invalid_client when its client id is right, and
\* succeeds when its PKCE verifier is right too.
C26_ClientVerification ==
  [][(CodeGrantStep /\ CodeLive(resp'.req)) =>
       LET creds == getClientCredentials(resp'.req)
           wrongClient == creds.clientId # OAUTH_CLIENT_ID
           wrongSecret == creds.clientSecret \notin {"", OAUTH_CLIENT_SECRET}
       IN /\ (wrongClient \/ wrongSecret)
               => /\ resp'.status = 400
                  /\ resp'.error = "invalid_client"
                  /\ NoTokenMinted
          /\ (~wrongClient /\ creds.clientSecret = "")
               => /\ resp'.error # "invalid_client"
                  /\ VerifierOk(resp'.req) <=> resp'.status = 200]_vars

\* an exchange without a client secret succeeded
C26_Witness ==
  /\ resp.kind = "token"
  /\ resp.req.grant_type = "authorization_code"
  /\ resp.req.basic = <<>>
  /\ resp.req.client_id = OAUTH_CLIENT_ID
  /\ resp.req.client_secret = ""
  /\ resp.status = 200
  /\ resp.req.code \in redeemed
  /\ now > 0


\* the token request is refused for a reason other than the expiry of its
\* code: unsupported grant type, unknown code, client or secret mismatch,
\* PKCE failure
RefusedUnexpired(req) ==
  \/ req.grant_type \notin {"authorization_code", "refresh_token"}
  \/ /\ req.grant_type = "authorization_code"
     /\ \/ ~MapHas(authCodes, req.code)
        \/ /\ CodeLive(req)
           /\ ~(ClientAccepted(req) /\ VerifierOk(req))

\* C27: a POST /token request with an unsupported grant_type, or an
\* authorization_code request refused for an unknown code, a client
\* mismatch, a secret mismatch or a PKCE failure, is answered 400 and leaves
\* the code store and the valid-token set as they were; so whatever was
\* refused before, a stored unexpired code presented with the right client
\* and verifier is exchanged.
C27_RejectionKeepsStores ==
  [][resp'.kind = "token" =>
       /\ RefusedUnexpired(resp'.req)
            => /\ resp'.status = 400
               /\ authCodes' = authCodes
               /\ validTokens' = validTokens
       /\ (/\ resp'.req.grant_type = "authorization_code"
           /\ CodeLive(resp'.req)
           /\ ClientAccepted(resp'.req)
           /\ VerifierOk(resp'.req))
            => resp'.status = 200]_vars

\* a PKCE failure, after time has passed, left the presented code stored
C27_Witness ==
  /\ resp.kind = "token"
  /\ resp.status = 400
  /\ resp.error_description = "PKCE verification failed"
  /\ MapHas(authCodes, resp.req.code)
  /\ now > 0
  /\ ~(now > authCodes[resp.req.code].expiresAt)


\* ------------------------------------------------------------------------
\* Eviction on transport closure
\* ------------------------------------------------------------------------
\* the step is a close signal of transport t, not part of a DELETE
CloseSignal(t) ==
  /\ resp' = NoResp
  /\ t \in DOMAIN transports
  /\ ~transports[t].closed
  /\ transports'[t].closed

C29_OneBindingPerId ==
  [][/\ \A sid \in DOMAIN sessions' :
          /\ sid # UnknownSessionId
          /\ transports'[sessions'[sid]].sessionId = sid
     /\ \A t1, t2 \in DOMAIN transports' :
          (t1 # t2 /\ transports'[t1].sessionId # 0)
            => transports'[t1].sessionId # transports'[t2].sessionId
     /\ (resp'.kind = "log" /\ resp'.sessionId # 0)
          => /\ sessions'[resp'.sessionId] = resp'.transport
             /\ resp'.sessionId # resp'.req.sessionId
             /\ ~MapHas(sessions, resp'.sessionId)
     /\ \A sid \in DOMAIN sessions \cap DOMAIN sessions' :
          sessions'[sid] = sessions[sid]]_vars

\* an initialize POST carrying the unknown id has just registered its
\* session while another one carrying the same id, suspended in
\* handleRequest with an id of its own, has yet to register
C29_Witness ==
  /\ resp.kind = "log"
  /\ resp.req.sessionId = UnknownSessionId
  /\ MapHas(sessions, resp.sessionId)
  /\ \E h \in pendingMcp :
       /\ h.stage = "handle"
       /\ h.req.sessionId = UnknownSessionId
       /\ h.t # resp.transport
       /\ transports[h.t].sessionId \notin {0, resp.sessionId}


\* C30: in every reachable state every entry of the session registry refers
\* to a transport that has not been closed, whatever the interleaving of
\* initialize handling, DELETE handling and close signals.
C30_NoEntryForClosedTransport ==
  \A sid \in DOMAIN sessions : ~transports[sessions[sid]].closed


\* ------------------------------------------------------------------------
\* Requests that follow the initialize response
\* ------------------------------------------------------------------------
\* the transport holding session id sid has written its initialize response
\* and has not been closed
Issued(sid) ==
  \E t \in DOMAIN transports :
    transports[t].sessionId = sid /\ sid # 0 /\ ~transports[t].closed

\* the handler that created the transport of sid has yet to register it
ToBeRegistered(sid) ==
  \E h \in pendingMcp : h.stage = "handle" /\ transports[h.t].sessionId = sid

\* C31: once the initialize response carrying a session id has been written,
\* and until the session is terminated or its transport closes, no
\* follow-up POST carrying that id is answered 404, and no DELETE carrying
\* it is acknowledged while the session is still to be registered, whatever
\* the interleaving.
C31_SessionKnownOnceAnnounced ==
  [][(/\ resp'.kind = "mcp"
      /\ resp'.by # "gate"
      /\ Issued(resp'.req.sessionId)
      /\ resp'.req.sessionId \notin terminated)
       => /\ resp'.req.verb = "POST" => resp'.status # 404
          /\ (resp'.req.verb = "DELETE" /\ resp'.by = "handler" /\ resp'.status = 200)
               => ~ToBeRegistered(resp'.req.sessionId)]_vars


\* ------------------------------------------------------------------------
\* One response per request
\* ------------------------------------------------------------------------
\* C32: every step of an /mcp handler that is not a suspension at an await
\* leaves a response written: when the transport handling fails before
\* anything was written the handler sends the 500 envelope, so no handler
\* ends with nothing written; and a 500 envelope is only ever sent by the
\* handler, never after a response of the transport.
C32_ExactlyOneResponse ==
  [][resp'.kind = "mcp" =>
       /\ resp'.by = "nobody" => resp'.body = "suspended"
       /\ resp'.status = 500 => resp'.by = "handler"]_vars


\* ------------------------------------------------------------------------
\* DELETE without a token
\* ------------------------------------------------------------------------
\* C33: no step of a DELETE /mcp handler whose request presents no member of
\* the valid-token set removes a registry entry or closes a transport,
\* whatever method its body names.
C33_DeleteNeedsToken ==
  [][(/\ resp'.kind = "mcp"
      /\ resp'.req.verb = "DELETE"
      /\ PresentedToken(resp'.req) \notin validTokens)
       => /\ sessions' = sessions
          /\ transports' = transports]_vars


\* ------------------------------------------------------------------------
\* Where tokens come from
\* ------------------------------------------------------------------------
\* C34: in every reachable state the valid-token set is empty unless an
\* approve handler whose IP was not locked at its check and whose password
\* was correct has issued a code earlier; a step adds tokens only by
\* redeeming a stored code issued that way or by a refresh grant presenting
\* a token already in the set.
C34_TokensTraceToApproval ==
  [][/\ validTokens' # {} => (nextCode' > 0 /\ DOMAIN issuedAt' # {})
     /\ validTokens' # validTokens
          => /\ resp'.kind = "token"
             /\ resp'.status = 200
             /\ \/ /\ resp'.req.grant_type = "authorization_code"
                   /\ MapHas(authCodes, resp'.req.code)
                   /\ MapHas(issuedAt, resp'.req.code)
                \/ /\ resp'.req.grant_type = "refresh_token"
                   /\ resp'.req.refresh_token \in validTokens
     /\ DOMAIN issuedAt' # DOMAIN issuedAt
          => /\ resp'.kind = "approve"
             /\ resp'.step = "resume"
             /\ bcryptCompare(resp'.h.password)
             /\ BagIn(resp'.h, pendingApprove)]_vars

\* tokens minted by a refresh grant, after wrong passwords, a correct one
\* and the exchange of its code
C34_Witness ==
  /\ resp.kind = "token"
  /\ resp.req.grant_type = "refresh_token"
  /\ resp.status = 200
  /\ redeemed # {}
  /\ DOMAIN issuedAt # {}
  /\ Cardinality(validTokens) = 4


\* ------------------------------------------------------------------------
\* The failure records
\* ------------------------------------------------------------------------
\* C35: in every reachable state every record of the failed-attempt map has
\* a count from 1 to MAX_ATTEMPTS and a lockedUntil that is set exactly when
\* the count is MAX_ATTEMPTS, so the attempts remaining derived from a
\* record are never negative, whatever the interleaving of approve requests.
C35_RecordsWellFormed ==
  \A ip \in DOMAIN failedAttempts :
    /\ failedAttempts[ip].count \in 1..MAX_ATTEMPTS
    /\ failedAttempts[ip].lockedUntil > 0 <=> failedAttempts[ip].count = MAX_ATTEMPTS
    /\ MAX_ATTEMPTS - failedAttempts[ip].count >= 0


\* C36: a step of a POST /authorize/approve handler of address a, whether
\* its request fails, succeeds or is rejected as locked, leaves the failure
\* record of every other address b as it was (absent or equal); and a
\* submission of b is rejected as locked only when b's own record is locked.
C36_LockoutPerIp ==
  [][\A a \in IPs :
       /\ (StartStep(a) \/ ResumeStep(a))
            => \A b \in IPs \ {a} :
                 /\ MapHas(failedAttempts', b) <=> MapHas(failedAttempts, b)
                 /\ MapHas(failedAttempts, b) => failedAttempts'[b] = failedAttempts[b]
       /\ (StartStep(a) /\ resp'.status = 429) => LockedNow(a)]_vars

\* a submission of the second address went on to the password comparison
\* while the first address was locked out
C36_Witness ==
  /\ resp.kind = "approve"
  /\ resp.ip = "10.0.0.2"
  /\ resp.page = "suspended"
  /\ MapHas(failedAttempts, "10.0.0.2")
  /\ MapHas(failedAttempts, "10.0.0.1")
  /\ failedAttempts["10.0.0.1"].lockedUntil > now


\* ------------------------------------------------------------------------
\* Access and refresh tokens
\* ------------------------------------------------------------------------
\* Each grant generates its access token first and its refresh token second,
\* so the tokens issued as access tokens are the odd ones.
IssuedAsAccess(token) == token > 0 /\ token % 2 = 1

IssuedAsRefresh(token) == token > 0 /\ token % 2 = 0

\* C37: the refresh_token grant answers 200 for every member of the
\* valid-token set, one issued as an access token included, whatever client
\* id and client secret the request carries or omits; and the gate lets
\* through every request whose bearer value is a member, one issued as a
\* refresh token included.
C37_TokensInterchangeable ==
  [][/\ (RefreshStep /\ resp'.req.refresh_token \in validTokens)
          => /\ resp'.status = 200
             /\ resp'.error = ""
             /\ {resp'.access_token, resp'.refresh_token} \subseteq validTokens'
     /\ (/\ McpStep
         /\ resp'.req.auth.scheme = "Bearer"
         /\ resp'.req.auth.credentials \in validTokens
         /\ \/ IssuedAsAccess(resp'.req.auth.credentials)
            \/ IssuedAsRefresh(resp'.req.auth.credentials))
          => /\ resp'.by # "gate"
             /\ resp'.status # 401]_vars

\* a refresh grant presenting the access token of the code exchange, with
\* the id and secret of another client, was answered 200
C37_Witness ==
  /\ resp.kind = "token"
  /\ resp.req.grant_type = "refresh_token"
  /\ IssuedAsAccess(resp.req.refresh_token)
  /\ resp.req.client_id = "other-client"
  /\ resp.req.client_secret = "wrong-secret"
  /\ resp.status = 200
  /\ IssuedAsRefresh(resp.refresh_token)

=============================================================================
